---- MODULE Spec2Model ----
(***************************************************************************)
(* A model of pstree.rs: the /proc harvester (get_process_records,         *)
(* get_process_record), the tree builder (populate_node,                   *)
(* populate_node_helper, build_process_tree) and the renderer (print_node).*)
(*                                                                         *)
(* Three specifications share the variables:                               *)
(*   SpecParse   - get_process_record scanning one status file;            *)
(*   SpecHarvest - get_process_records walking /proc while processes exit; *)
(*   Spec        - build_process_tree + print_node on a harvested list.    *)
(***************************************************************************)
EXTENDS Integers, Sequences, FiniteSets, TLC

VARIABLES
    \* get_process_record (one status file)
    lines,      \* the status file: a sequence of lines, each a sequence of characters
    pos,        \* the reader's position: index of the next line
    name,       \* Option<String>
    pid,        \* Option<i32>
    ppid,       \* Option<i32>
    result,     \* Option<ProcessRecord> returned
    rpc,        \* "loop" | "ret" | "done" | "idle"
    \* get_process_records (the walk over /proc)
    procfs,     \* the live /proc: entry -> [kind, file]
    listing,    \* the entries read_dir yields
    idx,        \* index of the entry the filter_map closure is at
    hpc,        \* position inside get_process_records
    cause,      \* what made the run panic
    records,    \* the collected Vec<ProcessRecord>
    \* build_process_tree / populate_node / print_node
    recs,       \* the harvested Vec<ProcessRecord> handed to populate_node
    ri,         \* index of the record the indexing loop is at
    pid_map,    \* HashMap<i32, &ProcessRecord>
    ppid_map,   \* HashMap<i32, Vec<i32>>
    tree,       \* constructed nodes: path from the root -> record
    stack,      \* activations of populate_node_helper / print_node: [path, k]
    out,        \* the lines written to standard output
    pc          \* position inside main

parseVars   == <<lines, pos, name, pid, ppid, result, rpc>>
harvestVars == <<procfs, listing, idx, hpc, cause, records>>
treeVars    == <<recs, ri, pid_map, ppid_map, tree, stack, out, pc>>
vars        == <<lines, pos, name, pid, ppid, result, rpc,
                 procfs, listing, idx, hpc, cause, records,
                 recs, ri, pid_map, ppid_map, tree, stack, out, pc>>

----------------------------------------------------------------------------
(* Bounds of the model. *)

MaxLines == 4       \* lines in one status file
MaxEntries == 3     \* entries under /proc
MaxRecs == 3        \* harvested records handed to the tree builder

----------------------------------------------------------------------------
(* Option<T>: None is the empty sequence, Some(v) the one-element sequence. *)

None == <<>>
Some(v) == <<v>>
IsSome(o) == Len(o) = 1
Unwrap(o) == o[1]

(* ProcessRecord { name, pid, ppid } *)
ProcessRecord(n, p, pp) == [name |-> n, pid |-> p, ppid |-> pp]

----------------------------------------------------------------------------
(* Text: a string is a sequence of one-character strings. *)

WhiteSpace == {" ", "\t", "\n", "\r"}

DigitChars == <<"0", "1", "2", "3", "4", "5", "6", "7", "8", "9">>
IsDigit(c) == \E d \in 1..10 : DigitChars[d] = c
DigitVal(c) == (CHOOSE d \in 1..10 : DigitChars[d] = c) - 1

I32Max == 2147483647
I32Min == -I32Max - 1

(* str::splitn(2, ':'): one part when there is no colon, else the text before
   the first colon and everything after it. *)
SplitN2(s) ==
    IF \A k \in 1..Len(s) : s[k] # ":"
    THEN <<s>>
    ELSE LET c == CHOOSE k \in 1..Len(s) :
                      s[k] = ":" /\ \A j \in 1..(k - 1) : s[j] # ":"
         IN <<SubSeq(s, 1, c - 1), SubSeq(s, c + 1, Len(s))>>

(* str::trim: drops leading and trailing whitespace. *)
Trim(s) ==
    IF \A k \in 1..Len(s) : s[k] \in WhiteSpace
    THEN <<>>
    ELSE LET a == CHOOSE k \in 1..Len(s) :
                      s[k] \notin WhiteSpace /\ \A j \in 1..(k - 1) : s[j] \in WhiteSpace
             b == CHOOSE k \in 1..Len(s) :
                      s[k] \notin WhiteSpace /\ \A j \in (k + 1)..Len(s) : s[j] \in WhiteSpace
         IN SubSeq(s, a, b)

(* The checked digit accumulation of i32::from_str: None on overflow. *)
RECURSIVE Accumulate(_, _, _)
Accumulate(digits, neg, acc) ==
    IF digits = <<>> THEN Some(acc)
    ELSE LET d == DigitVal(Head(digits))
         IN IF neg
            THEN IF acc < -(I32Max \div 10) THEN None
                 ELSE IF acc * 10 < I32Min + d THEN None
                 ELSE Accumulate(Tail(digits), neg, acc * 10 - d)
            ELSE IF acc > I32Max \div 10 THEN None
                 ELSE IF acc * 10 > I32Max - d THEN None
                 ELSE Accumulate(Tail(digits), neg, acc * 10 + d)

(* value.parse::<i32>().ok(): an optional sign, then at least one digit and
   nothing but digits, within the range of i32. *)
ParseI32(s) ==
    IF s = <<>> THEN None
    ELSE LET neg == s[1] = "-"
             digits == IF s[1] \in {"+", "-"} THEN Tail(s) ELSE s
         IN IF digits = <<>> THEN None
            ELSE IF \E k \in 1..Len(digits) : ~IsDigit(digits[k]) THEN None
            ELSE Accumulate(digits, neg, 0)

(* The three slots of get_process_record. *)
Slots(n, p, pp) == [name |-> n, pid |-> p, ppid |-> pp]
EmptySlots == Slots(None, None, None)

(* ScanLine keeping the first occurrence of a key instead of the last. *)
ScanLineFirstWins(s, linebuf) ==
    LET parts == SplitN2(linebuf)
    IN IF Len(parts) = 2
       THEN LET key == Trim(parts[1])
                value == Trim(parts[2])
            IN CASE key = <<"N", "a", "m", "e">> /\ s.name = None ->
                        [s EXCEPT !.name = Some(value)]
                 [] key = <<"P", "i", "d">> /\ s.pid = None ->
                        [s EXCEPT !.pid = ParseI32(value)]
                 [] key = <<"P", "P", "i", "d">> /\ s.ppid = None ->
                        [s EXCEPT !.ppid = ParseI32(value)]
                 [] OTHER -> s
       ELSE s

(* The body of the read loop for one line that was read (lines 78-88). *)
ScanLine(s, linebuf) ==
    LET parts == SplitN2(linebuf)
    IN IF Len(parts) = 2
       THEN LET key == Trim(parts[1])
                value == Trim(parts[2])
            IN CASE key = <<"N", "a", "m", "e">> -> [s EXCEPT !.name = Some(value)]
                 [] key = <<"P", "i", "d">> -> [s EXCEPT !.pid = ParseI32(value)]
                 [] key = <<"P", "P", "i", "d">> -> [s EXCEPT !.ppid = ParseI32(value)]
                 [] OTHER -> s
       ELSE s

(* MakeRecord defaulting a missing ppid to 0 instead of giving up. *)
MakeRecordDefaulted(s) ==
    IF IsSome(s.pid) /\ IsSome(s.name)
    THEN Some(ProcessRecord(Unwrap(s.name), Unwrap(s.pid),
                            IF IsSome(s.ppid) THEN Unwrap(s.ppid) ELSE 0))
    ELSE None

(* The return expression of get_process_record (lines 93-97). *)
MakeRecord(s) ==
    IF IsSome(s.pid) /\ IsSome(s.ppid) /\ IsSome(s.name)
    THEN Some(ProcessRecord(Unwrap(s.name), Unwrap(s.pid), Unwrap(s.ppid)))
    ELSE None

----------------------------------------------------------------------------
(* SpecParse: get_process_record on one opened status file. *)

(* The lines a status file is drawn from. text is what read_line yields; key
   and val say by hand what the line means: the key of interest it carries
   ("other" for none) and its value: the name, or Some(integer) for a number
   that is a decimal numeral within i32 and None for one that is not. *)
LineMenu ==
    { [text |-> <<"N", "a", "m", "e", ":", "\t", "s", "h", "\n">>,
       key |-> "Name", val |-> <<"s", "h">>],
      [text |-> <<"N", "a", "m", "e", ":", " ", "a", ":", "b", " ", "\n">>,
       key |-> "Name", val |-> <<"a", ":", "b">>],
      [text |-> <<"P", "i", "d", ":", "\t", "1", "\n">>,
       key |-> "Pid", val |-> Some(1)],
      [text |-> <<" ", "P", "i", "d", " ", ":", " ", "+", "2", "0", "\n">>,
       key |-> "Pid", val |-> Some(20)],
      [text |-> <<"P", "i", "d", ":", "\t", "1", "x", "\n">>,
       key |-> "Pid", val |-> None],
      [text |-> <<"P", "P", "i", "d", ":", "\t", "0", "\n">>,
       key |-> "PPid", val |-> Some(0)],
      [text |-> <<"P", "P", "i", "d", ":", "-", "1", "\n">>,
       key |-> "PPid", val |-> Some(-1)],
      [text |-> <<"P", "P", "i", "d", ":", "2", "1", "4", "7", "4", "8", "3", "6", "4", "8", "\n">>,
       key |-> "PPid", val |-> None],
      [text |-> <<"U", "i", "d", ":", "\t", "1", "\n">>,
       key |-> "other", val |-> None],
      [text |-> <<"P", "i", "d", " ", "1", "\n">>,
       key |-> "other", val |-> None] }

SeqsUpTo(S, n) == UNION {[1..k -> S] : k \in 0..n}

InitParseVars ==
    /\ pos = 1
    /\ name = None
    /\ pid = None
    /\ ppid = None
    /\ result = None

IdleParse ==
    /\ lines = <<>>
    /\ InitParseVars
    /\ rpc = "idle"

(* read_line returned Ok with a non-empty line (lines 74, 78-88). *)
ReadLineOk ==
    /\ rpc = "loop"
    /\ pos <= Len(lines)
    /\ LET s == ScanLine(Slots(name, pid, ppid), lines[pos].text)
       IN /\ name' = s.name
          /\ pid' = s.pid
          /\ ppid' = s.ppid
    /\ pos' = pos + 1
    /\ UNCHANGED <<lines, result, rpc>>
    /\ UNCHANGED <<harvestVars, treeVars>>

(* read_line returned Ok with nothing read: end of file (lines 75-77). *)
ReadLineEof ==
    /\ rpc = "loop"
    /\ pos > Len(lines)
    /\ rpc' = "ret"
    /\ UNCHANGED <<lines, pos, name, pid, ppid, result>>
    /\ UNCHANGED <<harvestVars, treeVars>>

(* read_line returned Err: the loop ends where it is (line 90). *)
ReadLineErr ==
    /\ rpc = "loop"
    /\ rpc' = "ret"
    /\ UNCHANGED <<lines, pos, name, pid, ppid, result>>
    /\ UNCHANGED <<harvestVars, treeVars>>

(* The return expression (lines 93-97). *)
ReturnRecord ==
    /\ rpc = "ret"
    /\ result' = MakeRecord(Slots(name, pid, ppid))
    /\ rpc' = "done"
    /\ UNCHANGED <<lines, pos, name, pid, ppid>>
    /\ UNCHANGED <<harvestVars, treeVars>>

----------------------------------------------------------------------------
(* SpecHarvest: get_process_records walking /proc while processes exit. *)

(* get_process_record on a file of which read_line delivers the first k lines
   (all of them unless a read fails): the loop of lines 71-92 and the return. *)
RECURSIVE ScanAll(_, _)
ScanAll(s, texts) ==
    IF texts = <<>> THEN s
    ELSE ScanAll(ScanLine(s, Head(texts)), Tail(texts))

GetProcessRecord(texts, k) == MakeRecord(ScanAll(EmptySlots, SubSeq(texts, 1, k)))

(* /proc/<p>/status of a live process p, and a status file without PPid. *)
StatusOf(p) ==
    << <<"N", "a", "m", "e", ":", "\t", "s", "h", "\n">>,
       <<"P", "i", "d", ":", "\t", DigitChars[p + 1], "\n">>,
       <<"P", "P", "i", "d", ":", "\t", "0", "\n">> >>

StatusShort(p) == SubSeq(StatusOf(p), 1, 2)

(* An entry of /proc: "proc" is the directory of process <entry>, "self" a
   symbolic link to the directory of the scanning process itself (which is
   process 1 here and does not exit), "dir" a directory without a status file,
   "file" a regular file. alive turns FALSE when the process exits: its
   directory and status file are gone. *)
EntryKinds == {"proc", "short", "self", "dir", "file"}

Entries == 1..MaxEntries

StatusText(e) ==
    CASE procfs[e].kind = "proc" -> StatusOf(e)
      [] procfs[e].kind = "short" -> StatusShort(e)
      [] procfs[e].kind = "self" -> StatusOf(1)
      [] OTHER -> <<>>

HasStatus(e) == procfs[e].kind \in {"proc", "short", "self"}

IdleHarvest ==
    /\ procfs = <<>>
    /\ listing = <<>>
    /\ idx = 1
    /\ hpc = "idle"
    /\ cause = "none"
    /\ records = <<>>

InitHarvest ==
    /\ procfs \in [Entries -> [kind : EntryKinds, alive : {TRUE}]]
    /\ procfs[1].kind = "proc"
    /\ listing = <<>>
    /\ idx = 1
    /\ hpc = "start"
    /\ cause = "none"
    /\ records = <<>>

(* fs::read_dir("/proc").unwrap() succeeds (line 106). *)
ReadDirOk ==
    /\ hpc = "start"
    /\ listing' = [k \in Entries |-> k]
    /\ hpc' = "entry"
    /\ UNCHANGED <<procfs, idx, cause, records>>
    /\ UNCHANGED <<parseVars, treeVars>>

(* fs::read_dir("/proc") fails and unwrap panics (line 106). *)
ReadDirFail ==
    /\ hpc = "start"
    /\ hpc' = "panic"
    /\ cause' = "read_dir"
    /\ UNCHANGED <<procfs, listing, idx, records>>
    /\ UNCHANGED <<parseVars, treeVars>>

(* The directory iterator yields Err and entry.unwrap() panics (line 108). *)
EntryErr ==
    /\ hpc = "entry"
    /\ idx <= Len(listing)
    /\ hpc' = "panic"
    /\ cause' = "read_dir"
    /\ UNCHANGED <<procfs, listing, idx, records>>
    /\ UNCHANGED <<parseVars, treeVars>>

(* A process exits during the scan: the environment, not the program. *)
Exit(e) ==
    /\ hpc \in {"entry", "status", "open", "read"}
    /\ e # 1
    /\ procfs[e].kind \in {"proc", "short"}
    /\ procfs[e].alive
    /\ procfs' = [procfs EXCEPT ![e].alive = FALSE]
    /\ UNCHANGED <<listing, idx, hpc, cause, records>>
    /\ UNCHANGED <<parseVars, treeVars>>

(* fs::metadata(entry_path).unwrap().is_dir() (line 109): panics when the entry
   is gone, skips the entry when it is no directory. *)
StatEntry ==
    /\ hpc = "entry"
    /\ idx <= Len(listing)
    /\ LET e == listing[idx]
       IN IF ~procfs[e].alive
          THEN /\ hpc' = "panic"
               /\ cause' = "entry_metadata"
               /\ idx' = idx
          ELSE IF procfs[e].kind = "file"
          THEN /\ hpc' = "entry"
               /\ cause' = cause
               /\ idx' = idx + 1
          ELSE /\ hpc' = "status"
               /\ cause' = cause
               /\ idx' = idx
    /\ UNCHANGED <<procfs, listing, records>>
    /\ UNCHANGED <<parseVars, treeVars>>

(* if let Ok(metadata) = fs::metadata(status_path) and metadata.is_file()
   (lines 110-112): a missing status file skips the entry. *)
StatStatus ==
    /\ hpc = "status"
    /\ LET e == listing[idx]
       IN IF procfs[e].alive /\ HasStatus(e)
          THEN /\ hpc' = "open"
               /\ idx' = idx
          ELSE /\ hpc' = "entry"
               /\ idx' = idx + 1
    /\ UNCHANGED <<procfs, listing, cause, records>>
    /\ UNCHANGED <<parseVars, treeVars>>

(* File::open(status_path).unwrap() (line 70): panics when the file is gone. *)
OpenStatus ==
    /\ hpc = "open"
    /\ LET e == listing[idx]
       IN IF procfs[e].alive
          THEN /\ hpc' = "read"
               /\ cause' = cause
          ELSE /\ hpc' = "panic"
               /\ cause' = "open"
    /\ UNCHANGED <<procfs, listing, idx, records>>
    /\ UNCHANGED <<parseVars, treeVars>>

(* The read loop and return of get_process_record on the open file, and the
   filter_map keeping a Some (lines 71-97, 107, 113). Reading the status of a
   process that has exited fails: read_line returns Err after k lines. *)
ReadStatus ==
    /\ hpc = "read"
    /\ LET e == listing[idx]
           texts == StatusText(e)
       IN \E k \in 0..Len(texts) :
            /\ procfs[e].alive => k = Len(texts)
            /\ LET r == GetProcessRecord(texts, k)
               IN records' = IF IsSome(r) THEN Append(records, Unwrap(r)) ELSE records
    /\ idx' = idx + 1
    /\ hpc' = "entry"
    /\ UNCHANGED <<procfs, listing, cause>>
    /\ UNCHANGED <<parseVars, treeVars>>

(* The iterator is exhausted: collect() returns the Vec (line 118). *)
Collect ==
    /\ hpc = "entry"
    /\ idx > Len(listing)
    /\ hpc' = "done"
    /\ UNCHANGED <<procfs, listing, idx, cause, records>>
    /\ UNCHANGED <<parseVars, treeVars>>

----------------------------------------------------------------------------
(* Spec: build_process_tree and print_node on a harvested record list. *)

(* The processes records are drawn from: a pid and the command name it runs. *)
Pids == {1, 50, 51}

NameOf(p) ==
    CASE p = 1 -> "init"
      [] p = 50 -> "sh"
      [] p = 51 -> "cat"

(* The name a pid observed a second time may carry instead (a /proc/self
   link, an exec or a reuse of the pid between the two reads). *)
OtherName == "ps"

PPids == {0} \cup Pids

(* The record lists handed to populate_node: any pids and parent pids, in any
   order and with repeats; only a pid seen earlier in the list may carry
   OtherName. *)
RecordLists ==
    LET Raw == UNION {[1..k -> [pid : Pids, ppid : PPids, other : BOOLEAN]] : k \in 0..MaxRecs}
        Ok(f) == \A i \in 1..Len(f) :
                    f[i].other => \E j \in 1..(i - 1) : f[j].pid = f[i].pid
    IN { [i \in 1..Len(f) |->
            ProcessRecord(IF f[i].other THEN OtherName ELSE NameOf(f[i].pid),
                          f[i].pid, f[i].ppid)] : f \in {g \in Raw : Ok(g)} }

(* The synthetic root of build_process_tree (lines 161-165). *)
RootRecord == ProcessRecord("/", 0, -1)

(* PidMapInsert keyed by the parent pid instead of the pid. *)
PidMapInsertByPpid(m, r) ==
    [p \in DOMAIN m \cup {r.ppid} |-> IF p = r.ppid THEN r ELSE m[p]]

(* pid_map.insert(record.pid, record) (line 146). *)
PidMapInsert(m, r) ==
    [p \in DOMAIN m \cup {r.pid} |-> IF p = r.pid THEN r ELSE m[p]]

(* PpidMapPush putting the pid at the front of the list instead of the back. *)
PpidMapPushFront(m, r) ==
    IF r.ppid \in DOMAIN m
    THEN [m EXCEPT ![r.ppid] = <<r.pid>> \o @]
    ELSE [p \in DOMAIN m \cup {r.ppid} |-> IF p = r.ppid THEN <<r.pid>> ELSE m[p]]

(* match ppid_map.entry(record.ppid): Vacant inserts vec![record.pid],
   Occupied pushes record.pid (lines 147-150). *)
PpidMapPush(m, r) ==
    IF r.ppid \in DOMAIN m
    THEN [m EXCEPT ![r.ppid] = Append(@, r.pid)]
    ELSE [p \in DOMAIN m \cup {r.ppid} |-> IF p = r.ppid THEN <<r.pid>> ELSE m[p]]

(* match ppid_map.get(&pid): the children of Some, nothing for None
   (lines 124-134). *)
ChildPids(m, p) == IF p \in DOMAIN m THEN m[p] ELSE <<>>

(* An activation of populate_node_helper or print_node on the node at path:
   k is the child it is at, indent the indent_level of print_node. *)
Frame(path, k, indent) == [path |-> path, k |-> k, indent |-> indent]

(* Display of an i32 in decimal. *)
RECURSIVE NatDigits(_)
NatDigits(n) ==
    IF n < 10 THEN <<DigitChars[n + 1]>>
    ELSE Append(NatDigits(n \div 10), DigitChars[(n % 10) + 1])

ToDecimal(n) == IF n < 0 THEN <<"-">> \o NatDigits(-n) ELSE NatDigits(n)

(* FormatLine with one space of indentation per level instead of two. *)
FormatLineNarrow(r, indent_level) ==
    [j \in 1..indent_level |-> " "] \o <<"- ", r.name, " #">> \o ToDecimal(r.pid)

(* The line print_node writes for a node: indent_level times "  ", then
   "- {} #{}" of the name and the pid (lines 178-181). *)
FormatLine(r, indent_level) ==
    [j \in 1..indent_level |-> "  "] \o <<"- ", r.name, " #">> \o ToDecimal(r.pid)

IdleTree ==
    /\ recs = <<>>
    /\ ri = 1
    /\ pid_map = <<>>
    /\ ppid_map = <<>>
    /\ tree = <<>>
    /\ stack = <<>>
    /\ out = <<>>
    /\ pc = "idle"

(* build_process_tree has the harvested records and has made the root. *)
InitTree ==
    /\ recs \in RecordLists
    /\ ri = 1
    /\ pid_map = <<>>
    /\ ppid_map = <<>>
    /\ tree = [p \in {<<>>} |-> RootRecord]
    /\ stack = <<>>
    /\ out = <<>>
    /\ pc = "index"

(* One turn of the indexing loop of populate_node (lines 142-151). *)
IndexRecord ==
    /\ pc = "index"
    /\ ri <= Len(recs)
    /\ pid_map' = PidMapInsert(pid_map, recs[ri])
    /\ ppid_map' = PpidMapPush(ppid_map, recs[ri])
    /\ ri' = ri + 1
    /\ UNCHANGED <<recs, tree, stack, out, pc>>
    /\ UNCHANGED <<parseVars, harvestVars>>

(* The loop is over: populate_node_helper(root) is called (line 154). *)
CallHelper ==
    /\ pc = "index"
    /\ ri > Len(recs)
    /\ stack' = <<Frame(<<>>, 1, 0)>>
    /\ pc' = "populate"
    /\ UNCHANGED <<recs, ri, pid_map, ppid_map, tree, out>>
    /\ UNCHANGED <<parseVars, harvestVars>>

(* The closure of populate_node_helper for the next child pid (lines 126-129):
   pid_map[child_pid] panics on a missing key; otherwise the child node is made
   and populate_node_helper recurses into it. More activations than records
   plus the root means a pid repeats along the path, so the recursion never
   ends: the stack overflows. *)
PopulateChild ==
    /\ pc = "populate"
    /\ LET top == stack[Len(stack)]
           children == ChildPids(ppid_map, tree[top.path].pid)
       IN /\ top.k <= Len(children)
          /\ LET child_pid == children[top.k]
                 path == Append(top.path, top.k)
             IN IF child_pid \notin DOMAIN pid_map
                THEN /\ pc' = "panic"
                     /\ UNCHANGED <<tree, stack>>
                ELSE IF Len(stack) > Len(recs)
                THEN /\ pc' = "overflow"
                     /\ UNCHANGED <<tree, stack>>
                ELSE /\ tree' = [q \in DOMAIN tree \cup {path} |->
                                    IF q = path THEN pid_map[child_pid] ELSE tree[q]]
                     /\ stack' = Append(stack, Frame(path, 1, 0))
                     /\ pc' = pc
    /\ UNCHANGED <<recs, ri, pid_map, ppid_map, out>>
    /\ UNCHANGED <<parseVars, harvestVars>>

(* populate_node_helper has gone through the children of its node and
   returns: the child joins its parent's children, and the parent goes on to
   the next child pid (lines 130-135); the return of the root's activation ends
   populate_node and build_process_tree (lines 155, 173). *)
PopulateReturn ==
    /\ pc = "populate"
    /\ LET top == stack[Len(stack)]
           children == ChildPids(ppid_map, tree[top.path].pid)
       IN /\ top.k > Len(children)
          /\ IF Len(stack) = 1
             THEN /\ stack' = <<>>
                  /\ pc' = "print"
             ELSE /\ stack' = [SubSeq(stack, 1, Len(stack) - 1)
                                  EXCEPT ![Len(stack) - 1].k = @ + 1]
                  /\ pc' = pc
    /\ UNCHANGED <<recs, ri, pid_map, ppid_map, tree, out>>
    /\ UNCHANGED <<parseVars, harvestVars>>

(* Whether the node at path has a k-th child. *)
HasChild(path, k) == Append(path, k) \in DOMAIN tree

(* main calls print_node(&root, 0), which prints the root's line
   (lines 189, 178-181). *)
PrintRoot ==
    /\ pc = "print"
    /\ stack = <<>>
    /\ out' = Append(out, FormatLine(tree[<<>>], 0))
    /\ stack' = <<Frame(<<>>, 1, 0)>>
    /\ UNCHANGED <<recs, ri, pid_map, ppid_map, tree, pc>>
    /\ UNCHANGED <<parseVars, harvestVars>>

(* print_node recurses into the next child with indent_level + 1, and the
   child's line is printed (lines 182-183, 178-181). *)
PrintChild ==
    /\ pc = "print"
    /\ stack # <<>>
    /\ LET top == stack[Len(stack)]
       IN /\ HasChild(top.path, top.k)
          /\ LET path == Append(top.path, top.k)
             IN /\ out' = Append(out, FormatLine(tree[path], top.indent + 1))
                /\ stack' = Append(stack, Frame(path, 1, top.indent + 1))
    /\ UNCHANGED <<recs, ri, pid_map, ppid_map, tree, pc>>
    /\ UNCHANGED <<parseVars, harvestVars>>

(* print_node is through the children and returns (line 185); the return of
   the root's activation ends main. *)
PrintReturn ==
    /\ pc = "print"
    /\ stack # <<>>
    /\ LET top == stack[Len(stack)]
       IN /\ ~HasChild(top.path, top.k)
          /\ IF Len(stack) = 1
             THEN /\ stack' = <<>>
                  /\ pc' = "done"
             ELSE /\ stack' = [SubSeq(stack, 1, Len(stack) - 1)
                                  EXCEPT ![Len(stack) - 1].k = @ + 1]
                  /\ pc' = pc
    /\ UNCHANGED <<recs, ri, pid_map, ppid_map, tree, out>>
    /\ UNCHANGED <<parseVars, harvestVars>>

----------------------------------------------------------------------------
(* The specifications. *)

InitParse ==
    /\ lines \in SeqsUpTo(LineMenu, MaxLines)
    /\ InitParseVars
    /\ rpc = "loop"
    /\ IdleHarvest
    /\ IdleTree

NextParse ==
    \/ ReadLineOk
    \/ ReadLineEof
    \/ ReadLineErr
    \/ ReturnRecord

SpecParse == InitParse /\ [][NextParse]_vars

InitWalk ==
    /\ InitHarvest
    /\ IdleParse
    /\ IdleTree

NextHarvest ==
    \/ ReadDirOk
    \/ ReadDirFail
    \/ EntryErr
    \/ \E e \in Entries : Exit(e)
    \/ StatEntry
    \/ StatStatus
    \/ OpenStatus
    \/ ReadStatus
    \/ Collect

SpecHarvest == InitWalk /\ [][NextHarvest]_vars

Init ==
    /\ InitTree
    /\ IdleParse
    /\ IdleHarvest

Next ==
    \/ IndexRecord
    \/ CallHelper
    \/ PopulateChild
    \/ PopulateReturn
    \/ PrintRoot
    \/ PrintChild
    \/ PrintReturn

Spec == Init /\ [][Next]_vars

----------------------------------------------------------------------------
(* Properties of get_process_record (SpecParse). *)

(* The lines read_line has delivered so far that carry the key. *)
Keyed(key) == {i \in 1..(pos - 1) : lines[i].key = key}

Present(key) == Keyed(key) # {}

LastKeyed(key) == CHOOSE i \in Keyed(key) : \A j \in Keyed(key) : j <= i

(* What the last delivered line with the key says, by the meaning given to the
   lines in LineMenu. *)
LastName == IF Present("Name") THEN Some(lines[LastKeyed("Name")].val) ELSE None
LastNumber(key) == IF Present(key) THEN lines[LastKeyed(key)].val ELSE None

(* C5: get_process_record returns a record if and only if the lines it read
   carry Name, Pid and PPid and the (last) Pid and PPid values are integers;
   the record then holds exactly these three values, and nothing is returned
   otherwise: no partial or defaulted record. *)
C5_RecordIffAllThree ==
    /\ rpc # "done" => result = None
    /\ rpc = "done" =>
        /\ IsSome(result) <=>
              /\ Present("Name")
              /\ Present("Pid") /\ IsSome(LastNumber("Pid"))
              /\ Present("PPid") /\ IsSome(LastNumber("PPid"))
        /\ IsSome(result) =>
              Unwrap(result) = ProcessRecord(Unwrap(LastName),
                                             Unwrap(LastNumber("Pid")),
                                             Unwrap(LastNumber("PPid")))

(* A file of four lines, one of them of another key, read to its end, gives
   the record of a signed and a padded number. *)
C5_Witness ==
    /\ rpc = "done"
    /\ pos = 5
    /\ \E i \in 1..4 : lines[i].key = "other"
    /\ result = Some(ProcessRecord(<<"a", ":", "b">>, 20, -1))

(* C9: at every point of the scan the captured name, pid and ppid are the
   values of the last line read so far that is keyed Name, Pid and PPid; a Pid
   or PPid value that is no signed integer leaves (or makes) the field unset. *)
C9_LastOccurrenceWins ==
    rpc # "idle" =>
        /\ name = LastName
        /\ pid = LastNumber("Pid")
        /\ ppid = LastNumber("PPid")

(* Pid is read twice with different numbers and the second is kept; PPid is
   read as a number and then as something that does not parse, and is unset. *)
C9_Witness ==
    /\ rpc = "done"
    /\ \E i, j \in Keyed("Pid") :
          /\ i < j
          /\ j = LastKeyed("Pid")
          /\ IsSome(lines[i].val) /\ IsSome(lines[j].val)
          /\ lines[i].val # lines[j].val
          /\ pid = lines[j].val
    /\ \E i, j \in Keyed("PPid") :
          /\ i < j
          /\ j = LastKeyed("PPid")
          /\ IsSome(lines[i].val) /\ lines[j].val = None
          /\ ppid = None

----------------------------------------------------------------------------
(* Properties of get_process_records (SpecHarvest). *)

(* The record a live entry with a complete status file stands for. *)
RecordOfEntry(e) ==
    ProcessRecord(<<"s", "h">>, IF procfs[e].kind = "self" THEN 1 ELSE e, 0)

(* C1: no failure local to one entry aborts the scan: the run panics only
   when /proc itself cannot be listed, and a run that ends has the record of
   every entry whose process is still there. *)
C1_OnlyListingAborts ==
    /\ hpc = "panic" => cause = "read_dir"
    /\ hpc = "done" =>
          \A e \in Entries :
              procfs[e].alive /\ procfs[e].kind \in {"proc", "self"} =>
                  \E i \in 1..Len(records) : records[i] = RecordOfEntry(e)

(* When no process exits, the scan of a listed /proc ends. *)
NoExitNoAbort ==
    (hpc = "panic" /\ \A e \in Entries : procfs[e].alive) => cause = "read_dir"

(* The pids of a finished scan are distinct. This does NOT hold: the scanning
   process is listed under its pid and again under the self link, so the list
   handed to populate_node repeats a pid. *)
HarvestedPidsDistinct ==
    hpc = "done" =>
        \A i, j \in 1..Len(records) : records[i].pid = records[j].pid => i = j

----------------------------------------------------------------------------
(* Properties of populate_node and print_node (Spec). *)

(* populate_node has returned. *)
Populated == pc \in {"print", "done"}

(* The nodes of the tree but the synthetic root. *)
Nodes == DOMAIN tree \ {<<>>}

RecIdx == 1..Len(recs)

HarvestedPids == {recs[i].pid : i \in RecIdx}

DistinctPids == \A i, j \in RecIdx : recs[i].pid = recs[j].pid => i = j

(* The parent pids the records of pid p name. *)
ParentPidsOf(p) == {recs[i].ppid : i \in {j \in RecIdx : recs[j].pid = p}}

(* Every chain of ppid edges from p ends at pid 0 (none dangles, none comes
   back to itself); a chain without repeats has at most Len(recs) edges. *)
RECURSIVE EveryChainReachesZero(_, _)
EveryChainReachesZero(p, fuel) ==
    \/ p = 0
    \/ /\ fuel > 0
       /\ ParentPidsOf(p) # {}
       /\ \A q \in ParentPidsOf(p) : EveryChainReachesZero(q, fuel - 1)

(* Some chain of ppid edges from p ends at pid 0. *)
RECURSIVE SomeChainReachesZero(_, _)
SomeChainReachesZero(p, fuel) ==
    \/ p = 0
    \/ /\ fuel > 0
       /\ \E q \in ParentPidsOf(p) : SomeChainReachesZero(q, fuel - 1)

(* The lengths of the chains of ppid edges from p to pid 0. *)
RECURSIVE ChainLengths(_, _)
ChainLengths(p, fuel) ==
    IF p = 0 THEN {0}
    ELSE IF fuel = 0 THEN {}
    ELSE UNION {{l + 1 : l \in ChainLengths(q, fuel - 1)} : q \in ParentPidsOf(p)}

(* The paths of the nodes that hold record r. *)
NodesOf(r) == {q \in Nodes : tree[q] = r}

(* C2: for a record list without dangling or self-referential ppid chains,
   once populate_node has returned every record appears exactly once in the
   tree, at a depth equal to the length of its ppid chain back to 0. *)
C2_CompleteExactlyOnce ==
    (Populated /\ \A i \in RecIdx : EveryChainReachesZero(recs[i].pid, Len(recs))) =>
        \A i \in RecIdx :
            /\ Cardinality(NodesOf(recs[i])) = 1
            /\ \A q \in NodesOf(recs[i]) : Len(q) \in ChainLengths(recs[i].pid, Len(recs))

(* With distinct pids the statement of C2 holds. *)
CompleteWhenDistinct == DistinctPids => C2_CompleteExactlyOnce

(* The index of the last record with pid p. *)
LastWithPid(p) ==
    CHOOSE i \in RecIdx : recs[i].pid = p /\ \A j \in RecIdx : recs[j].pid = p => j <= i

(* C3: when two records share a pid, the later one is the one in pid_map and
   the built tree holds one node for that pid, not two. *)
C3_OneNodePerDuplicatedPid ==
    Populated =>
        \A p \in HarvestedPids :
            Cardinality({i \in RecIdx : recs[i].pid = p}) >= 2 =>
                /\ pid_map[p] = recs[LastWithPid(p)]
                /\ Cardinality({q \in Nodes : tree[q].pid = p}) <= 1

(* The later record does win in pid_map, whatever the tree holds. *)
LastSeenWinsInPidMap ==
    Populated => \A p \in HarvestedPids : pid_map[p] = recs[LastWithPid(p)]

(* A record is an orphan when no chain of ppid edges leads from its parent pid
   to pid 0. *)
Orphan(r) == ~SomeChainReachesZero(r.ppid, Len(recs))

(* C4: an orphan record is absent from the built tree, and the lookup of a
   child's record never panics. *)
C4_OrphansAbsent ==
    /\ pc # "panic"
    /\ Populated => \A i \in RecIdx : Orphan(recs[i]) => NodesOf(recs[i]) = {}

(* With distinct pids the statement of C4 holds. *)
OrphansAbsentWhenDistinct == DistinctPids => C4_OrphansAbsent

(* The records in harvest order whose parent pid is p. *)
HarvestedChildren(p) == SelectSeq(recs, LAMBDA r : r.ppid = p)

(* Pre-order: a node comes before its descendants, and the subtree of a child
   before the subtree of the next child. *)
PreOrderBefore(a, b) ==
    \/ Len(a) < Len(b) /\ SubSeq(b, 1, Len(a)) = a
    \/ \E i \in 1..Len(a) :
          /\ i <= Len(b)
          /\ SubSeq(a, 1, i - 1) = SubSeq(b, 1, i - 1)
          /\ a[i] < b[i]

(* The place of a node's line in a pre-order rendering. *)
Rank(q) == 1 + Cardinality({x \in DOMAIN tree : PreOrderBefore(x, q)})

(* The decimal text of the pids of the model, written out by hand. *)
PidText(p) ==
    CASE p = 0 -> <<"0">>
      [] p = 1 -> <<"1">>
      [] p = 50 -> <<"5", "0">>
      [] p = 51 -> <<"5", "1">>

(* The line the node at path q should get: two spaces per level of depth,
   then "- <name> #<pid>". *)
ExpectedLine(q) ==
    [j \in 1..Len(q) |-> "  "] \o <<"- ", tree[q].name, " #">> \o PidText(tree[q].pid)

(* C6: the finished output has exactly one line per node of the tree, the
   line "- / #0" first, every line is two spaces per level of depth followed by
   "- <name> #<pid>", and the lines are in depth-first pre-order. *)
C6_PreOrderRendering ==
    pc = "done" =>
        /\ Len(out) = Cardinality(DOMAIN tree)
        /\ out[1] = <<"- ", "/", " #", "0">>
        /\ \A q \in DOMAIN tree : out[Rank(q)] = ExpectedLine(q)

(* The records (init,1,0), (sh,50,1), (cat,51,50) have been rendered as the
   four lines of the chain at depths 0, 1, 2 and 3. *)
C6_Witness ==
    /\ pc = "done"
    /\ recs = <<ProcessRecord("init", 1, 0), ProcessRecord("sh", 50, 1),
                ProcessRecord("cat", 51, 50)>>
    /\ out = << <<"- ", "/", " #", "0">>,
                <<"  ", "- ", "init", " #", "1">>,
                <<"  ", "  ", "- ", "sh", " #", "5", "0">>,
                <<"  ", "  ", "  ", "- ", "cat", " #", "5", "1">> >>

(* C7: the children of every node are, in this order, the nodes made for the
   records of the harvested list whose parent pid is the node's pid (with
   distinct pids, these very records), and their lines come out in this
   order. *)
C7_SiblingsInHarvestOrder ==
    Populated =>
        \A q \in DOMAIN tree :
            LET h == HarvestedChildren(tree[q].pid)
            IN /\ ~HasChild(q, Len(h) + 1)
               /\ \A k \in 1..Len(h) :
                     /\ HasChild(q, k)
                     /\ tree[Append(q, k)].pid = h[k].pid
                     /\ DistinctPids => tree[Append(q, k)] = h[k]
                     /\ pc = "done" =>
                           out[Rank(Append(q, k))] =
                               [j \in 1..(Len(q) + 1) |-> "  "]
                                   \o <<"- ", tree[Append(q, k)].name, " #">>
                                   \o PidText(h[k].pid)

(* Pid 50 was harvested before pid 1, both children of pid 0, with a child
   of pid 50 harvested last: sh comes out before init. *)
C7_Witness ==
    /\ pc = "done"
    /\ recs = <<ProcessRecord("sh", 50, 0), ProcessRecord("init", 1, 0),
                ProcessRecord("cat", 51, 50)>>
    /\ tree[<<1>>].pid = 50
    /\ tree[<<2>>].pid = 1
    /\ out[2] = <<"  ", "- ", "sh", " #", "5", "0">>
    /\ out[4] = <<"  ", "- ", "init", " #", "1">>

(* C8: tree population ends, with at most one node made per harvested record:
   the recursion never outgrows the stack and the tree never has more than
   Len(recs) + 1 nodes. *)
C8_TerminatesWithinRecords ==
    /\ pc # "overflow"
    /\ Cardinality(DOMAIN tree) <= Len(recs) + 1

(* With distinct pids the statement of C8 holds. *)
TerminatesWhenDistinct == DistinctPids => C8_TerminatesWithinRecords

(* main runs on as long as it can: with distinct pids it reaches its end. *)
FairSpec == Spec /\ WF_vars(Next)

ReturnsWhenDistinct == DistinctPids => <>(pc = "done")

(* C10: every pid stored in a child list of ppid_map is a key of pid_map, at
   every point of the indexing loop and after it, so the lookup
   pid_map[child_pid] of populate_node_helper never panics. *)
C10_IndexesConsistent ==
    /\ \A p \in DOMAIN ppid_map :
          \A k \in 1..Len(ppid_map[p]) : ppid_map[p][k] \in DOMAIN pid_map
    /\ pc # "panic"

(* A list with a repeated pid and a dangling parent pid has been indexed,
   and the children of the root have been looked up and made. *)
C10_Witness ==
    /\ pc = "done"
    /\ ~DistinctPids
    /\ \E i \in RecIdx : recs[i].ppid \notin {0} \cup HarvestedPids
    /\ Cardinality(Nodes) >= 2

====
